---- MODULE Spec2Model ----
(***************************************************************************)
(* rbxbuild (src/main.rs): a command-line tool that reads a Rojo-style     *)
(* JSON project, walks its tree of ProjectNode values into instance        *)
(* builders, wraps the root in a WeakDom and prints its XML encoding.      *)
(*                                                                         *)
(* The model follows main() statement by statement.  The walk of           *)
(* instantiate_node is a call stack: one step per call and one per return. *)
(* Both HashMap fields of ProjectNode are iterated in an order the input   *)
(* does not determine, so every iteration order is a possible run.         *)
(***************************************************************************)
EXTENDS Naturals, Sequences, FiniteSets, TLC

\* Largest number of nodes of an input tree.
MaxNodes == 3

(***************************************************************************)
(* Option<T>: None is the empty tuple, Some(x) the one-element tuple.       *)
(***************************************************************************)
None == <<>>
Some(x) == <<x>>
IsSome(o) == Len(o) > 0
Unwrap(o) == o[1]

Range(s) == {s[i] : i \in 1..Len(s)}

\* All orders in which the entries of the finite set S can be iterated.
Orders(S) ==
  {s \in [1..Cardinality(S) -> S] : \A i, j \in 1..Cardinality(S) : s[i] = s[j] => i = j}

\* HashMap::get
Get(map, k) ==
  IF \E e \in map : e.key = k THEN Some((CHOOSE e \in map : e.key = k).value) ELSE None

(***************************************************************************)
(* Input text.  A text is a sequence of characters; only being white       *)
(* space or not matters to main().                                          *)
(***************************************************************************)
WhiteSpace == {" ", "\n"}

Texts == {<<>>, <<" ">>, <<" ", "\n">>, <<" ", "{", "\n">>}

RECURSIVE trim_start(_)
trim_start(s) ==
  IF s # <<>> /\ Head(s) \in WhiteSpace THEN trim_start(Tail(s)) ELSE s

RECURSIVE trim_end(_)
trim_end(s) ==
  IF s # <<>> /\ s[Len(s)] \in WhiteSpace THEN trim_end(SubSeq(s, 1, Len(s) - 1)) ELSE s

\* A plausible slip: the emptiness test without the trim.
trim_identity(s) == s

\* str::trim
trim(s) == trim_end(trim_start(s))

\* str::is_empty
is_empty(s) == Len(s) = 0

(***************************************************************************)
(* Raw values (resolution::UnresolvedValue) and resolved values (Variant). *)
(* val is the value's JSON text, so that all values compare.                *)
(***************************************************************************)
Raw(shape, val) == [shape |-> shape, val |-> val]
Variant(type, val) == [type |-> type, val |-> val]
NoVariant == Variant("", "")

Ok(v) == [ok |-> TRUE, value |-> v, err |-> ""]
Err(e) == [ok |-> FALSE, value |-> NoVariant, err |-> e]

\* The reflection database: a class's superclass ("" for the top class).
Superclass(class) ==
  CASE class = "Part" -> "BasePart"
    [] class = "BasePart" -> "Instance"
    [] class = "Instance" -> ""
    [] OTHER -> "Instance"

\* The property types a class declares itself.
Declared(class, property) ==
  CASE class = "Instance" /\ property = "Name" -> Some("String")
    [] class = "BasePart" /\ property = "Anchored" -> Some("Bool")
    [] class = "BasePart" /\ property = "Size" -> Some("Vector3")
    [] class = "BasePart" /\ property = "Transparency" -> Some("Float32")
    [] OTHER -> None

\* SchemaCatalog.lookup: the nearest ancestor's declaration.
RECURSIVE lookup(_, _)
lookup(class, property) ==
  IF class = "" THEN None
  ELSE IF IsSome(Declared(class, property)) THEN Declared(class, property)
  ELSE lookup(Superclass(class), property)

\* UnresolvedValue::resolve(class, property)
resolve(raw, class, property) ==
  LET t == lookup(class, property) IN
  IF ~IsSome(t) THEN Err("UnknownProperty")
  ELSE CASE Unwrap(t) = "Bool" /\ raw.shape = "Bool" -> Ok(Variant("Bool", raw.val))
         [] Unwrap(t) = "Float32" /\ raw.shape = "Number" -> Ok(Variant("Float32", raw.val))
         [] Unwrap(t) = "String" /\ raw.shape = "String" -> Ok(Variant("String", raw.val))
         [] Unwrap(t) = "Vector3" /\ raw.shape = "Array3" -> Ok(Variant("Vector3", raw.val))
         [] OTHER -> Err("TypeMismatch")

\* UnresolvedValue::resolve_unambiguous
resolve_unambiguous(raw) ==
  CASE raw.shape = "Bool" -> Ok(Variant("Bool", raw.val))
    [] raw.shape = "Number" -> Ok(Variant("Float64", raw.val))
    [] raw.shape = "String" -> Ok(Variant("String", raw.val))
    [] OTHER -> Err("NotUnambiguous")

(***************************************************************************)
(* Projects: what serde_json::from_str can return.  A tree is flat: node 1 *)
(* is the root, nodes[n].children maps a key to the number of the child,   *)
(* and the numbers of siblings follow their textual order in the input.    *)
(***************************************************************************)
Prop(k, v) == [key |-> k, value |-> v]

\* The nodes a tree is drawn from: a structural key (unused for the root,
\* whose key is the project name), $className and $properties.
NodeKinds ==
  { [key |-> "Workspace", class_name |-> None, properties |-> {}],
    [key |-> "PartKey", class_name |-> None,
     properties |-> {Prop("Name", Raw("String", "Players"))}],
    [key |-> "Lighting", class_name |-> Some("Part"),
     properties |-> {Prop("Name", Raw("Number", "5")),
                     Prop("Anchored", Raw("String", "yes")),
                     Prop("Size", Raw("Array3", "[4,4,4]"))}],
    [key |-> "Place", class_name |-> Some("DataModel"),
     properties |-> {Prop("Name", Raw("Bool", "true"))}],
    [key |-> "MyScript", class_name |-> Some("Part"),
     properties |-> {Prop("Name", Raw("Array3", "[1,2,3]")),
                     Prop("Anchored", Raw("Bool", "true"))}],
    [key |-> "Chat", class_name |-> None,
     properties |-> {Prop("Name", Raw("Mapping", "{}")),
                     Prop("Anchored", Raw("Bool", "true")),
                     Prop("Size", Raw("Number", "5"))}] }

ProjectNames == {None, Some("Workspace")}

\* parent[n] < n for every node but the root.
Shapes(n) == {p \in [2..n -> 1..(n - 1)] : \A i \in 2..n : p[i] < i}

ChildrenOf(parent, kind, n, i) ==
  {[key |-> kind[c].key, node |-> c] : c \in {c \in 2..n : parent[c] = i}}

ProjectNode(parent, kind, n, i) ==
  [class_name |-> kind[i].class_name,
   properties |-> kind[i].properties,
   children   |-> ChildrenOf(parent, kind, n, i)]

\* The keys of one map are distinct.
UniqueKeys(parent, kind, n) ==
  \A a, b \in 2..n : (a # b /\ parent[a] = parent[b]) => kind[a].key # kind[b].key

\* The project of n nodes with the given parents and kinds.
Project(nm, n, parent, kind) ==
  [name |-> nm, tree |-> 1,
   nodes |-> [i \in 1..n |-> ProjectNode(parent, kind, n, i)]]

NoProject == [name |-> None, tree |-> 0, nodes |-> <<>>]

(***************************************************************************)
(* Messages on the diagnostic stream: tuples of strings.                   *)
(***************************************************************************)
NoInputMessage ==
  <<"Error: No input provided. Please provide JSON as an argument or pipe it to stdin.">>
UsageMessage ==
  <<"Usage: rojo-build-lite '<json>' or echo '<json>' | rojo-build-lite">>
EmptyInputMessage == <<"Error: Empty input provided.">>
\* What the runtime prints when main returns Err.
ErrorMessage(e) == <<"Error", e>>
PropertyWarning(class_name, key, e) ==
  <<"Warning: Failed to resolve property", class_name, key, e>>
ChildWarning(child_name, e) == <<"Warning: Failed to instantiate child", child_name, e>>

VARIABLES
  pc,            \* the statement main() is at
  json_input,    \* Option<String>: the text main() obtained
  project,       \* the parsed Project
  stack,         \* the active calls of instantiate_node, innermost first
  builders,      \* node -> Option<InstanceBuilder>, by referent
  dom,           \* the WeakDom
  ids_to_write,  \* the referents handed to the encoder
  buffer,        \* Option<document>: what the encoder wrote
  stdout,        \* what was printed to the standard output
  stderr,        \* what was printed to the diagnostic stream
  exit_code,     \* Option<status>
  events         \* history: the phases the run went through

vars == <<pc, json_input, project, stack, builders, dom, ids_to_write, buffer,
          stdout, stderr, exit_code, events>>

NoDom == [root_ref |-> 0, instances |-> <<>>]

Init ==
  /\ pc = "start"
  /\ json_input = None
  /\ project = NoProject
  /\ stack = <<>>
  /\ builders = [n \in 1..MaxNodes |-> None]
  /\ dom = NoDom
  /\ ids_to_write = <<>>
  /\ buffer = None
  /\ stdout = <<>>
  /\ stderr = <<>>
  /\ exit_code = None
  /\ events = <<>>

\* std::process::exit(1) after the messages, or main returning Err.
Exit1(messages) ==
  /\ stderr' = stderr \o messages
  /\ exit_code' = Some(1)
  /\ pc' = "exit"

(***************************************************************************)
(* main, lines 16-29: the text comes from the first argument, else from a  *)
(* piped standard input, else there is none.  Reading the pipe can fail.   *)
(***************************************************************************)
ReadInput ==
  /\ pc = "start"
  /\ \E arg \in {None} \cup {Some(t) : t \in Texts}, is_terminal \in BOOLEAN,
        piped \in {None} \cup {Some(t) : t \in Texts} :
       IF IsSome(arg)
       THEN /\ json_input' = arg
            /\ pc' = "check_empty"
            /\ events' = Append(events, "input_read")
            /\ UNCHANGED <<stderr, exit_code>>
       ELSE IF ~is_terminal
       THEN IF IsSome(piped)
            THEN /\ json_input' = piped
                 /\ pc' = "check_empty"
                 /\ events' = Append(events, "input_read")
                 /\ UNCHANGED <<stderr, exit_code>>
            ELSE /\ Exit1(<<ErrorMessage("read_to_string")>>)
                 /\ events' = Append(events, "input_error")
                 /\ UNCHANGED json_input
       ELSE /\ Exit1(<<NoInputMessage, UsageMessage>>)
            /\ events' = Append(events, "input_missing")
            /\ UNCHANGED json_input
  /\ UNCHANGED <<project, stack, builders, dom, ids_to_write, buffer, stdout>>

\* main, lines 32-35
CheckEmpty ==
  /\ pc = "check_empty"
  /\ IF is_empty(trim(Unwrap(json_input)))
     THEN Exit1(<<EmptyInputMessage>>)
     ELSE /\ pc' = "parse"
          /\ UNCHANGED <<stderr, exit_code>>
  /\ UNCHANGED <<json_input, project, stack, builders, dom, ids_to_write, buffer,
                 stdout, events>>

\* main, line 38: serde_json::from_str returns a Project or an error.
Parse ==
  /\ pc = "parse"
  /\ \/ /\ \E n \in 1..MaxNodes :
             \E parent \in Shapes(n), kind \in [1..n -> NodeKinds], nm \in ProjectNames :
               /\ UniqueKeys(parent, kind, n)
               /\ project' = Project(nm, n, parent, kind)
        /\ pc' = "instantiate"
        /\ UNCHANGED <<stderr, exit_code>>
     \/ /\ Exit1(<<ErrorMessage("serde_json")>>)
        /\ UNCHANGED project
  /\ UNCHANGED <<json_input, stack, builders, dom, ids_to_write, buffer, stdout, events>>

(***************************************************************************)
(* instantiate_node, lines 101-157.                                         *)
(***************************************************************************)
\* The names the match of infer_class_from_name knows.
ServiceNames ==
  {"Workspace", "Players", "Lighting", "ReplicatedFirst", "ReplicatedStorage",
   "ServerScriptService", "ServerStorage", "StarterGui", "StarterPack",
   "StarterPlayer", "Teams", "SoundService", "Chat", "LocalizationService",
   "TestService"}

\* lines 160-179
infer_class_from_name(name) ==
  CASE name = "Workspace" -> Some("Workspace")
    [] name = "Players" -> Some("Players")
    [] name = "Lighting" -> Some("Lighting")
    [] name = "ReplicatedFirst" -> Some("ReplicatedFirst")
    [] name = "ReplicatedStorage" -> Some("ReplicatedStorage")
    [] name = "ServerScriptService" -> Some("ServerScriptService")
    [] name = "ServerStorage" -> Some("ServerStorage")
    [] name = "StarterGui" -> Some("StarterGui")
    [] name = "StarterPack" -> Some("StarterPack")
    [] name = "StarterPlayer" -> Some("StarterPlayer")
    [] name = "Teams" -> Some("Teams")
    [] name = "SoundService" -> Some("SoundService")
    [] name = "Chat" -> Some("Chat")
    [] name = "LocalizationService" -> Some("LocalizationService")
    [] name = "TestService" -> Some("TestService")
    [] OTHER -> None

\* lines 111-121
instance_name_override(node) ==
  LET name_value == Get(node.properties, "Name") IN
  IF ~IsSome(name_value) THEN None
  ELSE LET r == resolve_unambiguous(Unwrap(name_value)) IN
       IF ~r.ok THEN None
       ELSE IF r.value.type = "String" THEN Some(r.value.val) ELSE None

\* A plausible slip: the override is ignored.
instance_name_key(node, name) == name

\* line 123
instance_name(node, name) ==
  IF IsSome(instance_name_override(node))
  THEN Unwrap(instance_name_override(node))
  ELSE name

\* A plausible slip: the class is inferred from the effective name.
class_name_from_instance_name(node, name) ==
  IF IsSome(node.class_name) THEN Unwrap(node.class_name)
  ELSE IF IsSome(infer_class_from_name(instance_name(node, name)))
       THEN Unwrap(infer_class_from_name(instance_name(node, name)))
       ELSE "Folder"

\* lines 103-108
class_name(node, name) ==
  IF IsSome(node.class_name) THEN Unwrap(node.class_name)
  ELSE IF IsSome(infer_class_from_name(name))
       THEN Unwrap(infer_class_from_name(name))
       ELSE "Folder"

\* A plausible slip: no special case for "Name".
add_property_no_skip(class, entry) ==
  LET r == resolve(entry.value, class, entry.key) IN
  IF r.ok
  THEN [properties |-> {Prop(entry.key, r.value)}, warnings |-> <<>>]
  ELSE [properties |-> {}, warnings |-> <<PropertyWarning(class, entry.key, r.err)>>]

\* lines 128-141, one iteration of the loop: what it attaches and prints.
add_property(class, entry) ==
  IF entry.key = "Name"
  THEN [properties |-> {}, warnings |-> <<>>]
  ELSE LET r == resolve(entry.value, class, entry.key) IN
       IF r.ok
       THEN [properties |-> {Prop(entry.key, r.value)}, warnings |-> <<>>]
       ELSE [properties |-> {}, warnings |-> <<PropertyWarning(class, entry.key, r.err)>>]

\* A plausible slip: the first property that fails ends the loop.
RECURSIVE add_properties_until_error(_, _)
add_properties_until_error(class, entries) ==
  IF entries = <<>> THEN [properties |-> {}, warnings |-> <<>>]
  ELSE LET first == add_property(class, Head(entries)) IN
       IF first.warnings # <<>> THEN first
       ELSE LET rest == add_properties_until_error(class, Tail(entries)) IN
            [properties |-> first.properties \cup rest.properties,
             warnings   |-> first.warnings \o rest.warnings]

\* lines 128-142: the loop over the properties, in their iteration order.
RECURSIVE add_properties(_, _)
add_properties(class, entries) ==
  IF entries = <<>> THEN [properties |-> {}, warnings |-> <<>>]
  ELSE LET first == add_property(class, Head(entries))
           rest  == add_properties(class, Tail(entries))
       IN [properties |-> first.properties \cup rest.properties,
           warnings   |-> first.warnings \o rest.warnings]

\* InstanceBuilder::new(class_name).with_name(instance_name), line 125
InstanceBuilder(referent, class, name) ==
  [referent |-> referent, class |-> class, name |-> name, properties |-> {},
   children |-> <<>>]

\* A plausible slip: the child replaces the children attached so far.
with_only_child(builder, child) == [builder EXCEPT !.children = <<child>>]

\* InstanceBuilder::with_child, line 148
with_child(builder, child) ==
  [builder EXCEPT !.children = Append(builder.children, child)]

\* lines 101-142 of a call instantiate_node(node n, name): the builder with
\* its properties, and the frame that will loop over the children.
Call(n, name, porder, corder) ==
  LET node  == project'.nodes[n]
      class == class_name(node, name)
      added == add_properties(class, porder)
      b     == InstanceBuilder(n, class, instance_name(node, name))
  IN /\ builders' = [builders EXCEPT ![n] = Some([b EXCEPT !.properties = added.properties])]
     /\ stderr' = stderr \o added.warnings
     /\ stack' = <<[node |-> n, name |-> name, todo |-> corder]>> \o
                 (IF stack = <<>> THEN <<>>
                  ELSE <<[stack[1] EXCEPT !.todo = Tail(stack[1].todo)]>> \o Tail(stack))

\* main, lines 41-44, and instantiate, line 96: the call for the root.
Instantiate ==
  /\ pc = "instantiate"
  /\ UNCHANGED project
  /\ LET root_name == IF IsSome(project.name) THEN Unwrap(project.name) ELSE "ROOT"
         node == project.nodes[project.tree]
     IN \E porder \in Orders(node.properties), corder \in Orders(node.children) :
          Call(project.tree, root_name, porder, corder)
  /\ pc' = "walk"
  /\ events' = Append(events, "walk_begin")
  /\ UNCHANGED <<json_input, dom, ids_to_write, buffer, stdout, exit_code>>

\* line 146: the loop over the children calls instantiate_node for the next.
CallChild ==
  /\ pc = "walk"
  /\ stack # <<>>
  /\ stack[1].todo # <<>>
  /\ UNCHANGED project
  /\ LET child == Head(stack[1].todo)
         node  == project.nodes[child.node]
     IN \E porder \in Orders(node.properties), corder \in Orders(node.children) :
          Call(child.node, child.key, porder, corder)
  /\ UNCHANGED <<pc, json_input, dom, ids_to_write, buffer, stdout, exit_code, events>>

\* A plausible slip: a property that fails to resolve fails the whole call,
\* as a `?` on the resolution would.
instantiate_node_result_or_property_error(frame) ==
  IF \E e \in project.nodes[frame.node].properties :
       e.key # "Name" /\ ~resolve(e.value, Unwrap(builders[frame.node]).class, e.key).ok
  THEN Err("property")
  ELSE Ok(frame.node)

\* line 156: what a call returns once its loops are done.
instantiate_node_result(frame) == Ok(frame.node)

\* lines 146-153 and 156: a call for a child returns and the parent matches
\* on the result.
ReturnChild ==
  /\ pc = "walk"
  /\ Len(stack) >= 2
  /\ stack[1].todo = <<>>
  /\ LET result == instantiate_node_result(stack[1])
         parent == stack[2].node
     IN IF result.ok
        THEN /\ builders' = [builders EXCEPT ![parent] =
                               Some(with_child(Unwrap(builders[parent]), result.value))]
             /\ UNCHANGED stderr
        ELSE /\ stderr' = Append(stderr, ChildWarning(stack[1].name, result.err))
             /\ UNCHANGED builders
  /\ stack' = Tail(stack)
  /\ UNCHANGED <<pc, json_input, project, dom, ids_to_write, buffer, stdout,
                 exit_code, events>>

\* A plausible slip: the root returns before its loop over the children ends.
ReturnRootEarly ==
  /\ pc = "walk"
  /\ Len(stack) = 1
  /\ dom' = [root_ref |-> stack[1].node, instances |-> builders]
  /\ stack' = <<>>
  /\ pc' = "select"
  /\ events' = Append(events, "walk_end")
  /\ UNCHANGED <<json_input, project, builders, ids_to_write, buffer, stdout, stderr,
                 exit_code>>

\* lines 96-97 and 156: the call for the root returns Ok and WeakDom::new
\* takes the root builder with everything attached to it.
ReturnRoot ==
  /\ pc = "walk"
  /\ Len(stack) = 1
  /\ stack[1].todo = <<>>
  /\ dom' = [root_ref |-> stack[1].node, instances |-> builders]
  /\ stack' = <<>>
  /\ pc' = "select"
  /\ events' = Append(events, "walk_end")
  /\ UNCHANGED <<json_input, project, builders, ids_to_write, buffer, stdout, stderr,
                 exit_code>>

(***************************************************************************)
(* main, lines 49-67: the encoder and the output.                          *)
(***************************************************************************)
DomInstance(d, ref) == Unwrap(d.instances[ref])

\* A plausible slip: the root is written whatever its class.
ids_to_write_root_only(d) == <<d.root_ref>>

\* lines 50-60
IdsToWrite(d) ==
  IF DomInstance(d, d.root_ref).class = "DataModel"
  THEN DomInstance(d, d.root_ref).children
  ELSE <<d.root_ref>>

\* What the encoder writes for one instance: an Item with its name, its
\* properties and the Items of its children.
RECURSIVE Item(_, _)
Item(d, ref) ==
  LET inst == DomInstance(d, ref) IN
  [referent |-> ref, class |-> inst.class, name |-> inst.name,
   properties |-> inst.properties,
   children |-> [i \in 1..Len(inst.children) |-> Item(d, inst.children[i])]]

\* rbx_xml::to_writer_default(buffer, dom, ids): one Item per id.
Document(d, ids) == [i \in 1..Len(ids) |-> Item(d, ids[i])]

Select ==
  /\ pc = "select"
  /\ ids_to_write' = IdsToWrite(dom)
  /\ pc' = "encode"
  /\ UNCHANGED <<json_input, project, stack, builders, dom, buffer, stdout, stderr,
                 exit_code, events>>

\* A plausible slip: the encoder writes to the standard output as it goes.
EncodeToStdout ==
  /\ pc = "encode"
  /\ events' = Append(events, "encode")
  /\ stdout' = Append(stdout, Document(dom, ids_to_write))
  /\ \/ /\ buffer' = Some(Document(dom, ids_to_write))
        /\ pc' = "print"
        /\ UNCHANGED <<stderr, exit_code>>
     \/ /\ Exit1(<<ErrorMessage("rbx_xml")>>)
        /\ UNCHANGED buffer
  /\ UNCHANGED <<json_input, project, stack, builders, dom, ids_to_write>>

\* line 62: the encoder fills the buffer or fails.
Encode ==
  /\ pc = "encode"
  /\ events' = Append(events, "encode")
  /\ \/ /\ buffer' = Some(Document(dom, ids_to_write))
        /\ pc' = "print"
        /\ UNCHANGED <<stderr, exit_code>>
     \/ /\ Exit1(<<ErrorMessage("rbx_xml")>>)
        /\ UNCHANGED buffer
  /\ UNCHANGED <<json_input, project, stack, builders, dom, ids_to_write, stdout>>

\* lines 65-67: the buffer the encoder filled is valid UTF-8.
PrintXml ==
  /\ pc = "print"
  /\ stdout' = Append(stdout, Unwrap(buffer))
  /\ exit_code' = Some(0)
  /\ pc' = "exit"
  /\ events' = Append(events, "print")
  /\ UNCHANGED <<json_input, project, stack, builders, dom, ids_to_write, buffer, stderr>>

Next ==
  \/ ReadInput
  \/ CheckEmpty
  \/ Parse
  \/ Instantiate
  \/ CallChild
  \/ ReturnChild
  \/ ReturnRoot
  \/ Select
  \/ Encode
  \/ PrintXml

Spec == Init /\ [][Next]_vars

(***************************************************************************)
(* Vocabulary of the properties below.                                      *)
(***************************************************************************)
Nodes == DOMAIN project.nodes
Built(n) == IsSome(builders[n])
B(n) == Unwrap(builders[n])
InputChildren(n) == {c.node : c \in project.nodes[n].children}

\* The structural key of a node: its key in the parent's map; for the root
\* the project name, or "ROOT".
KeyOf(n) ==
  IF n = project.tree
  THEN IF project.name = None THEN "ROOT" ELSE project.name[1]
  ELSE (CHOOSE c \in UNION {project.nodes[m].children : m \in Nodes} : c.node = n).key

Happened(e) == e \in Range(events)
WalkDone == Happened("walk_end")
Succeeded == pc = "exit" /\ exit_code = Some(0)
Referents(doc) == [i \in 1..Len(doc) |-> doc[i].referent]
IsPropertyWarning(m) == Len(m) = 4 /\ m[1] = "Warning: Failed to resolve property"

\* C1: the list handed to the encoder is the root's children, without the
\* root, when the root's class is "DataModel", and the root alone otherwise;
\* the encoded document has one top-level entry per element of the list.
C1_TopLevelEntries ==
  (pc \in {"encode", "print"} \/ (pc = "exit" /\ Happened("encode"))) =>
    LET root == project.tree IN
    /\ DomInstance(dom, root).class = "DataModel" =>
         /\ ids_to_write = DomInstance(dom, root).children
         /\ Range(ids_to_write) = InputChildren(root)
         /\ Len(ids_to_write) = Cardinality(InputChildren(root))
         /\ root \notin Range(ids_to_write)
    /\ DomInstance(dom, root).class # "DataModel" => ids_to_write = <<root>>
    /\ IsSome(buffer) => Referents(Unwrap(buffer)) = ids_to_write

C1_Witness ==
  /\ Succeeded
  /\ DomInstance(dom, project.tree).class = "DataModel"
  /\ Len(ids_to_write) = 2
  /\ Len(stdout[1]) = 2

\* C2: a "Name" entry of $properties that is a string names the instance,
\* whatever the structural key, and is not attached as a property.
C2_NameOverride ==
  \A n \in 1..MaxNodes : Built(n) =>
    \A e \in project.nodes[n].properties :
      (e.key = "Name" /\ e.value.shape = "String") =>
        /\ B(n).name = e.value.val
        /\ \A q \in B(n).properties : q.key # "Name"

C2_Witness ==
  /\ Succeeded
  /\ \E n \in Nodes : \E e \in project.nodes[n].properties :
       /\ e.key = "Name" /\ e.value.shape = "String"
       /\ e.value.val # KeyOf(n)
       /\ B(n).name = e.value.val

\* C3: the class of an instance is the explicit $className, else the
\* structural key when it is a service name, else "Folder"; a Name override
\* plays no part.
C3_ResolvedClass ==
  \A n \in 1..MaxNodes : Built(n) =>
    B(n).class = IF project.nodes[n].class_name # None
                 THEN project.nodes[n].class_name[1]
                 ELSE IF KeyOf(n) \in ServiceNames THEN KeyOf(n) ELSE "Folder"

C3_Witness ==
  /\ Succeeded
  /\ \E n \in Nodes : \E e \in project.nodes[n].properties :
       /\ project.nodes[n].class_name = None
       /\ e.key = "Name" /\ e.value.shape = "String" /\ e.value.val \in ServiceNames
       /\ KeyOf(n) \notin ServiceNames
       /\ B(n).class = "Folder"

IsBlank(t) == \A i \in 1..Len(t) : t[i] \in WhiteSpace
MissingInput == events = <<"input_missing">>
EmptyInput == IsSome(json_input) /\ IsBlank(Unwrap(json_input))
BuilderNotInvoked ==
  /\ ~Happened("walk_begin")
  /\ stack = <<>>
  /\ \A n \in 1..MaxNodes : ~Built(n)

\* C6 as stated: missing and empty input both end in a non-zero status and
\* a usage message, the builder not invoked.
C6_Original ==
  (pc = "exit" /\ (MissingInput \/ EmptyInput)) =>
    /\ exit_code = Some(1)
    /\ UsageMessage \in Range(stderr)
    /\ BuilderNotInvoked

\* C6, amended: missing input ends in status 1 after the error and the usage
\* message; empty input ends in status 1 after the message "Error: Empty
\* input provided." alone; the builder is invoked in neither case.
C6_Amended ==
  /\ MissingInput =>
       /\ pc = "exit" /\ exit_code = Some(1)
       /\ stderr = <<NoInputMessage, UsageMessage>>
       /\ stdout = <<>>
       /\ BuilderNotInvoked
  /\ EmptyInput =>
       /\ pc \in {"check_empty", "exit"}
       /\ BuilderNotInvoked
       /\ stdout = <<>>
       /\ pc = "exit" => (exit_code = Some(1) /\ stderr = <<EmptyInputMessage>>)

C6_Witness ==
  /\ pc = "exit"
  /\ json_input = Some(<<" ", "\n">>)
  /\ stderr = <<EmptyInputMessage>>
  /\ exit_code = Some(1)

\* C7: the standard output is empty or holds the one document of the built
\* tree, written by the last step of a run in which the input was read and
\* parsed, the walk ended and the encoder succeeded; a run that ends in a
\* non-zero status wrote nothing to it.
C7_StdoutOneDocument ==
  /\ Len(stdout) <= 1
  /\ stdout # <<>> =>
       /\ Succeeded
       /\ events = <<"input_read", "walk_begin", "walk_end", "encode", "print">>
       /\ stack = <<>>
       /\ stdout = <<Document(dom, ids_to_write)>>
  /\ exit_code = Some(1) => stdout = <<>>
  /\ Succeeded => Len(stdout) = 1

C7_Witness ==
  /\ Succeeded
  /\ Len(stdout) = 1
  /\ \E i \in 1..Len(stderr) : IsPropertyWarning(stderr[i])

C9_Original ==
  WalkDone =>
    \A n \in Nodes :
      \A i, j \in 1..Len(B(n).children) :
        i < j => B(n).children[i] < B(n).children[j]

\* C9, amended: the children of a node are attached in the iteration order
\* of its map, which the textual order does not determine: every child of
\* the input is attached exactly once, in some order, and the top-level
\* entries of a place follow the order of the root's children.
C9_Amended ==
  /\ WalkDone =>
       \A n \in Nodes :
         /\ Range(B(n).children) = InputChildren(n)
         /\ Len(B(n).children) = Cardinality(InputChildren(n))
  /\ (IsSome(buffer) /\ DomInstance(dom, project.tree).class = "DataModel") =>
       Referents(Unwrap(buffer)) = B(project.tree).children

C9_Witness ==
  /\ Succeeded
  /\ DomInstance(dom, project.tree).class = "DataModel"
  /\ Referents(stdout[1]) = <<3, 2>>

\* C10: a "Name" entry of $properties that is a Bool, a Number, a Sequence
\* or a Mapping leaves the instance named by its structural key, is not
\* attached as a property, and no warning names it.
C10_NonStringName ==
  \A n \in 1..MaxNodes : Built(n) =>
    \A e \in project.nodes[n].properties :
      (e.key = "Name" /\ e.value.shape \in {"Bool", "Number", "Array3", "Mapping"}) =>
        /\ B(n).name = KeyOf(n)
        /\ \A q \in B(n).properties : q.key # "Name"
        /\ \A i \in 1..Len(stderr) : IsPropertyWarning(stderr[i]) => stderr[i][3] # "Name"

C10_Witness ==
  /\ Succeeded
  /\ project.name = None
  /\ \E e \in project.nodes[project.tree].properties :
       e.key = "Name" /\ e.value.shape = "Bool"
  /\ B(project.tree).name = "ROOT"
  /\ \E n \in Nodes : \E e \in project.nodes[n].properties :
       e.key = "Name" /\ e.value.shape = "Mapping" /\ B(n).name = "Chat"
  /\ \E n \in Nodes : \E e \in project.nodes[n].properties :
       e.key = "Name" /\ e.value.shape = "Number" /\ B(n).name = "Lighting"

IsChildWarning(m) == m[1] = "Warning: Failed to instantiate child"

\* The instances of a document: its entries and all their descendants.
RECURSIVE CountItems(_)
CountItems(items) ==
  IF items = <<>> THEN 0
  ELSE 1 + CountItems(Head(items).children) + CountItems(Tail(items))

\* The referents reachable from ref through the attached children.
RECURSIVE Attached(_)
Attached(ref) ==
  {ref} \cup UNION {Attached(B(ref).children[i]) : i \in 1..Len(B(ref).children)}

\* C11: every call of instantiate_node returns success: no warning about a
\* child is ever printed, a call about to return has attached every child
\* of its node, and once the walk is over the built tree has one instance
\* per node of the input, each attached to the instance of its parent and
\* nowhere else; the document holds them all (but a DataModel root).
C11_OneInstancePerNode ==
  /\ \A i \in 1..Len(stderr) : ~IsChildWarning(stderr[i])
  /\ \A n \in 1..MaxNodes : Built(n) =>
       /\ n \in Nodes
       /\ B(n).referent = n
       /\ Range(B(n).children) \subseteq InputChildren(n)
       /\ \A i, j \in 1..Len(B(n).children) :
            B(n).children[i] = B(n).children[j] => i = j
  /\ \A f \in 1..Len(stack) : (f = 1 /\ stack[f].todo = <<>>) =>
       Range(B(stack[f].node).children) = InputChildren(stack[f].node)
  /\ WalkDone =>
       /\ \A n \in Nodes : Built(n) /\ Range(B(n).children) = InputChildren(n)
       /\ Attached(dom.root_ref) = Nodes
       /\ \A n \in Nodes : dom.instances[n] = builders[n]
  /\ IsSome(buffer) =>
       CountItems(Unwrap(buffer)) =
         IF DomInstance(dom, project.tree).class = "DataModel"
         THEN Len(project.nodes) - 1
         ELSE Len(project.nodes)

C11_Witness ==
  /\ Succeeded
  /\ Len(project.nodes) = 3
  /\ B(1).children = <<2>> /\ B(2).children = <<3>>
  /\ \E e \in project.nodes[2].properties :
       e.key # "Name" /\ ~resolve(e.value, B(2).class, e.key).ok
  /\ \E e \in project.nodes[3].properties :
       e.key # "Name" /\ ~resolve(e.value, B(3).class, e.key).ok
  /\ CountItems(stdout[1]) = 3

====
